---- MODULE Spec2Model ----
(***************************************************************************)
(* Model of the movie recommendation engine of src/movie.py: the scoring   *)
(* pipeline (cosine_sim, build_tfidf, build_user_profile, predict_cf,      *)
(* predict_cb, hybrid_scores, apply_prompt_boost) and the request handler  *)
(* index that drives it.                                                   *)
(*                                                                         *)
(* Representation.  A Python str is a sequence of one-character strings,   *)
(* so that lower(), strip(), join() and the substring test `in` are        *)
(* computed and not assumed.  A Python number is a fixed-point integer     *)
(* with Scale units per 1.0 (the integer 5 is 5 * Scale); products of two  *)
(* numbers are kept unrescaled where the code feeds them to math.sqrt.     *)
(* A dict whose order is not observed is a function; the dicts returned by *)
(* hybrid_scores and apply_prompt_boost, whose order is the ranking, are   *)
(* sequences of <<id, score>> pairs.  None is <<>> and a value v that may  *)
(* be None is <<v>>.                                                       *)
(***************************************************************************)
EXTENDS Integers, Sequences, FiniteSets, TLC

VARIABLES MOVIES, COMMUNITY, method, form, movie_name, prompt, movie,
          ratings, tfidf, user_profile, neighbors, cf, cb, hybrid, boosted,
          recs, error, calls, first

vars == <<MOVIES, COMMUNITY, method, form, movie_name, prompt, movie,
          ratings, tfidf, user_profile, neighbors, cf, cb, hybrid, boosted,
          recs, error, calls, first>>

(* ------------------------------ numbers -------------------------------- *)

\* Fixed-point units per 1.0.
Scale == 1000

Num(n) == n * Scale

Mul(a, b) == (a * b) \div Scale

Div(a, b) == (a * Scale) \div b

Abs(a) == IF a < 0 THEN 0 - a ELSE a

RECURSIVE SqrtBetween(_, _, _)
SqrtBetween(x, lo, hi) ==
    IF lo >= hi THEN lo
    ELSE LET mid == (lo + hi + 1) \div 2
         IN  IF mid * mid <= x THEN SqrtBetween(x, mid, hi)
                               ELSE SqrtBetween(x, lo, mid - 1)

\* math.sqrt of an unrescaled product (Scale * Scale units), in Scale units.
sqrt(x) == SqrtBetween(x, 0, 46340)

RECURSIVE AtanhSeries(_, _, _)
AtanhSeries(zk, zz, k) ==
    IF zk = 0 THEN 0 ELSE (zk \div k) + AtanhSeries(Mul(zk, zz), zz, k + 2)

\* math.log(num / den) for integers num >= den > 0:
\* ln(x) = 2 * atanh((x - 1) / (x + 1)).
log(num, den) ==
    LET z == Div(num - den, num + den)
    IN  2 * AtanhSeries(z, Mul(z, z), 1)

RECURSIVE SumOver(_, _)
SumOver(f, S) ==
    IF S = {} THEN 0
    ELSE LET x == CHOOSE y \in S : TRUE IN f[x] + SumOver(f, S \ {x})

(* ------------------------------- values -------------------------------- *)

None == <<>>

Some(v) == <<v>>

EmptyDict == [k \in {} |-> 0]

\* A dict or a list holds its values: the function is tabulated once, when it
\* is built, as Python builds it.
dict(f) == f @@ EmptyDict

list(f) == f \o <<>>

get(d, k) == IF k \in DOMAIN d THEN d[k] ELSE 0

(* ------------------------------ strings -------------------------------- *)

UpperToLower ==
    ("A" :> "a") @@ ("B" :> "b") @@ ("C" :> "c") @@ ("D" :> "d") @@ ("E" :> "e") @@ ("F" :> "f") @@ ("G" :> "g") @@
    ("H" :> "h") @@ ("I" :> "i") @@ ("J" :> "j") @@ ("K" :> "k") @@ ("L" :> "l") @@ ("M" :> "m") @@ ("N" :> "n") @@
    ("O" :> "o") @@ ("P" :> "p") @@ ("Q" :> "q") @@ ("R" :> "r") @@ ("S" :> "s") @@ ("T" :> "t") @@ ("U" :> "u") @@
    ("V" :> "v") @@ ("W" :> "w") @@ ("X" :> "x") @@ ("Y" :> "y") @@ ("Z" :> "z")

Whitespace == {" ", "\t", "\n", "\r"}

\* str.lower()
lower(s) ==
    list([i \in 1..Len(s) |->
             IF s[i] \in DOMAIN UpperToLower THEN UpperToLower[s[i]] ELSE s[i]])

RECURSIVE lstrip(_)
lstrip(s) == IF s # <<>> /\ Head(s) \in Whitespace THEN lstrip(Tail(s)) ELSE s

RECURSIVE rstrip(_)
rstrip(s) ==
    IF s # <<>> /\ s[Len(s)] \in Whitespace
    THEN rstrip(SubSeq(s, 1, Len(s) - 1)) ELSE s

\* str.strip()
strip(s) == rstrip(lstrip(s))

\* the Python test `q in hay` on two strings
contains(hay, q) ==
    \E i \in 0..(Len(hay) - Len(q)) : SubSeq(hay, i + 1, i + Len(q)) = q

RECURSIVE join(_)
\* " ".join(parts)
join(parts) ==
    IF parts = <<>> THEN <<>>
    ELSE IF Len(parts) = 1 THEN parts[1]
    ELSE parts[1] \o <<" ">> \o join(Tail(parts))

Range(s) == {s[i] : i \in DOMAIN s}

(* ------------------------------ dataset -------------------------------- *)

Movie1 ==
    [id |-> 1, year |-> 2010,
     title |-> <<"I", "n", "c", "e", "p", "t", "i", "o", "n">>,
     genres |-> <<<<"A", "c", "t", "i", "o", "n">>, <<"S", "c", "i", "-", "F", "i">>, <<"T", "h", "r", "i", "l", "l", "e", "r">>>>,
     tags |-> <<<<"d", "r", "e", "a", "m">>, <<"h", "e", "i", "s", "t">>, <<"m", "i", "n", "d", "-", "b", "e", "n", "d", "i", "n", "g">>, <<"n", "o", "l", "a", "n">>>>]

Movie2 ==
    [id |-> 2, year |-> 2008,
     title |-> <<"T", "h", "e", " ", "D", "a", "r", "k", " ", "K", "n", "i", "g", "h", "t">>,
     genres |-> <<<<"A", "c", "t", "i", "o", "n">>, <<"C", "r", "i", "m", "e">>, <<"D", "r", "a", "m", "a">>>>,
     tags |-> <<<<"b", "a", "t", "m", "a", "n">>, <<"j", "o", "k", "e", "r">>, <<"n", "o", "l", "a", "n">>>>]

Movie3 ==
    [id |-> 3, year |-> 2014,
     title |-> <<"I", "n", "t", "e", "r", "s", "t", "e", "l", "l", "a", "r">>,
     genres |-> <<<<"A", "d", "v", "e", "n", "t", "u", "r", "e">>, <<"D", "r", "a", "m", "a">>, <<"S", "c", "i", "-", "F", "i">>>>,
     tags |-> <<<<"s", "p", "a", "c", "e">>, <<"t", "i", "m", "e">>, <<"n", "o", "l", "a", "n">>, <<"w", "o", "r", "m", "h", "o", "l", "e">>>>]

Movie4 ==
    [id |-> 4, year |-> 1999,
     title |-> <<"T", "h", "e", " ", "M", "a", "t", "r", "i", "x">>,
     genres |-> <<<<"A", "c", "t", "i", "o", "n">>, <<"S", "c", "i", "-", "F", "i">>>>,
     tags |-> <<<<"s", "i", "m", "u", "l", "a", "t", "i", "o", "n">>, <<"k", "u", "n", "g", " ", "f", "u">>, <<"a", "i">>>>]

Movie5 ==
    [id |-> 5, year |-> 2019,
     title |-> <<"P", "a", "r", "a", "s", "i", "t", "e">>,
     genres |-> <<<<"D", "r", "a", "m", "a">>, <<"T", "h", "r", "i", "l", "l", "e", "r">>>>,
     tags |-> <<<<"c", "l", "a", "s", "s">>, <<"k", "o", "r", "e", "a", "n">>, <<"a", "c", "a", "d", "e", "m", "y", " ", "a", "w", "a", "r", "d", "s">>>>]

SampleMovies == <<Movie1, Movie2, Movie3, Movie4, Movie5>>

SampleCommunity ==
    << [userId |-> "u_alex",
        ratings |-> (1 :> Num(5)) @@ (2 :> Num(5)) @@ (3 :> Num(5)) @@ (4 :> Num(5))],
       [userId |-> "u_bianca",
        ratings |-> (5 :> Num(5)) @@ (3 :> Num(4))] >>

(* ------------------------------- utils --------------------------------- *)

\* the three accumulators of cosine_sim after its loop over keys (lines 31-37)
dot_of(a, b, keys) == SumOver(dict([k \in keys |-> get(a, k) * get(b, k)]), keys)

\* lines 38-40 of cosine_sim
cosine_of(dot, na, nb) ==
    IF na = 0 \/ nb = 0 THEN 0
    ELSE ((dot \div sqrt(na)) * Scale) \div sqrt(nb)

cosine_over(a, b, keys) ==
    cosine_of(dot_of(a, b, keys), dot_of(a, a, keys), dot_of(b, b, keys))

cosine_sim(a, b) == cosine_over(a, b, DOMAIN a \cup DOMAIN b)

(* ------------------------------- TF-IDF -------------------------------- *)

\* [t.lower() for t in (m["genres"] + m["tags"])]
lower_all(ts) == list([i \in DOMAIN ts |-> lower(ts[i])])

tokens_of(m) == lower_all(m.genres \o m.tags)

\* docs: one (id, tokens) pair per movie (lines 45-48)
docs_of(movies) == list([i \in DOMAIN movies |-> <<movies[i].id, tokens_of(movies[i])>>])

\* df: in how many documents each token occurs (lines 49-50)
df_of(docs) ==
    dict([t \in UNION {Range(docs[i][2]) : i \in DOMAIN docs} |->
             Cardinality({i \in DOMAIN docs : t \in Range(docs[i][2])})])

\* line 52
idf_of(df, N) == dict([t \in DOMAIN df |-> log(N + 1, df[t] + 1) + Num(1)])

\* lines 55-58: the vector of one document
vec_of(tokens, idf) ==
    dict([t \in Range(tokens) |->
             Cardinality({j \in DOMAIN tokens : tokens[j] = t}) * get(idf, t)])

\* lines 53-60
vectors_of(docs, idf) ==
    dict([mid \in {docs[i][1] : i \in DOMAIN docs} |->
             vec_of(docs[CHOOSE i \in DOMAIN docs : docs[i][1] = mid][2], idf)])

tfidf_of(docs, N) == vectors_of(docs, idf_of(df_of(docs), N))

build_tfidf(movies) == tfidf_of(docs_of(movies), Len(movies))

\* tfidf_vectors.get(mid, {})
get_vec(tfidf_vectors, mid) ==
    IF mid \in DOMAIN tfidf_vectors THEN tfidf_vectors[mid] ELSE EmptyDict

\* lines 66-70: the term-wise sum of the liked items' vectors
acc_of(tfidf_vectors, liked) ==
    dict([t \in UNION {DOMAIN get_vec(tfidf_vectors, mid) : mid \in liked} |->
             SumOver(dict([mid \in liked |-> get(get_vec(tfidf_vectors, mid), t)]), liked)])

\* math.sqrt(sum(v * v for v in acc.values())) or 1
norm_of(acc) ==
    IF sqrt(SumOver(dict([t \in DOMAIN acc |-> acc[t] * acc[t]]), DOMAIN acc)) = 0
    THEN Num(1)
    ELSE sqrt(SumOver(dict([t \in DOMAIN acc |-> acc[t] * acc[t]]), DOMAIN acc))

\* line 72
scaled_by(acc, norm) == dict([t \in DOMAIN acc |-> Div(acc[t], norm)])

normalized(acc) == scaled_by(acc, norm_of(acc))

\* liked_of with the threshold one lower
liked_of_three(rs) == {mid \in DOMAIN rs : rs[mid] >= Num(3)}

\* line 63
liked_of(rs) == {mid \in DOMAIN rs : rs[mid] >= Num(4)}

build_user_profile(tfidf_vectors, rs) ==
    IF liked_of(rs) = {} THEN EmptyDict
    ELSE normalized(acc_of(tfidf_vectors, liked_of(rs)))

(* ------------------------------- CF & CB ------------------------------- *)

\* Number of neighbours kept by predict_cf (its default k).
K == 3

RECURSIVE insert_desc_unstable(_, _)
\* insert_desc placing x in front of the elements with its own key
insert_desc_unstable(x, s) ==
    IF s = <<>> THEN <<x>>
    ELSE IF Head(s)[2] > x[2] THEN <<Head(s)>> \o insert_desc_unstable(x, Tail(s))
    ELSE <<x>> \o s

RECURSIVE insert_desc(_, _)
\* x placed behind every element whose key (component 2) is >= its own
insert_desc(x, s) ==
    IF s = <<>> THEN <<x>>
    ELSE IF Head(s)[2] >= x[2] THEN <<Head(s)>> \o insert_desc(x, Tail(s))
    ELSE <<x>> \o s

RECURSIVE sorted_desc(_)
\* sorted(s, key=lambda x: x[1], reverse=True): descending and stable
sorted_desc(s) ==
    IF s = <<>> THEN <<>>
    ELSE insert_desc(s[Len(s)], sorted_desc(SubSeq(s, 1, Len(s) - 1)))

take(s, n) == SubSeq(s, 1, IF Len(s) < n THEN Len(s) ELSE n)

movie_ids == list([i \in DOMAIN MOVIES |-> MOVIES[i].id])

\* neighbors_of keeping the peers of similarity 0 as well
neighbors_nonneg(rs, community, k) ==
    LET sims == list([i \in DOMAIN community |->
                         <<community[i].userId,
                           cosine_sim(rs, community[i].ratings),
                           community[i].ratings>>])
        nonneg(s) == s[2] >= 0
    IN  take(SelectSeq(sorted_desc(sims), nonneg), k)

\* lines 76-81 of predict_cf: the peers it predicts from
neighbors_of(rs, community, k) ==
    LET sims == list([i \in DOMAIN community |->
                         <<community[i].userId,
                           cosine_sim(rs, community[i].ratings),
                           community[i].ratings>>])
        positive(s) == s[2] > 0
    IN  take(SelectSeq(sorted_desc(sims), positive), k)

\* predict_from counting a neighbour that did not rate the item as a rating of 0
predict_from_all(rs, nbrs) ==
    LET rating_of(i, m) == get(nbrs[i][3], m)
        num(m) == SumOver([i \in DOMAIN nbrs |-> Mul(nbrs[i][2], rating_of(i, m))], DOMAIN nbrs)
        den(m) == SumOver([i \in DOMAIN nbrs |-> Abs(nbrs[i][2])], DOMAIN nbrs)
        keys == {m \in Range(movie_ids) : m \notin DOMAIN rs /\ den(m) > 0}
    IN  dict([m \in keys |-> Div(num(m), den(m))])

\* lines 82-93 of predict_cf
predict_from(rs, nbrs) ==
    LET raters(m) == {i \in DOMAIN nbrs : m \in DOMAIN nbrs[i][3]}
        num(m) == SumOver([i \in raters(m) |-> Mul(nbrs[i][2], nbrs[i][3][m])], raters(m))
        den(m) == SumOver([i \in raters(m) |-> Abs(nbrs[i][2])], raters(m))
        keys == {m \in Range(movie_ids) : m \notin DOMAIN rs /\ den(m) > 0}
    IN  dict([m \in keys |-> Div(num(m), den(m))])

predict_cf(rs, community) == predict_from(rs, neighbors_of(rs, community, K))

\* predict_cb scoring the rated items too
predict_cb_all(tfidf_vectors, profile, rs) ==
    dict([mid \in Range(movie_ids) |->
             cosine_sim(profile, get_vec(tfidf_vectors, mid)) * 5])

predict_cb(tfidf_vectors, profile, rs) ==
    LET keys == {m \in Range(movie_ids) : m \notin DOMAIN rs}
    IN  dict([mid \in keys |-> cosine_sim(profile, get_vec(tfidf_vectors, mid)) * 5])

hybrid_scores(cf_scores, cb_scores, alpha) ==
    LET blend(m) == Mul(alpha, get(cf_scores, m)) + Mul(Num(1) - alpha, get(cb_scores, m))
        scored(m) == get(cf_scores, m) # 0 \/ get(cb_scores, m) # 0
        results == list([i \in DOMAIN movie_ids |-> <<movie_ids[i], blend(movie_ids[i])>>])
        kept(e) == scored(e[1])
    IN  sorted_desc(SelectSeq(results, kept))

(* ----------------------------- prompt boost ---------------------------- *)

\* next(m for m in MOVIES if m["id"] == mid)
movie_by_id(mid) == MOVIES[CHOOSE i \in DOMAIN MOVIES : MOVIES[i].id = mid]

\* " ".join([m["title"]] + m["genres"] + m["tags"]).lower()
haystack(m) == lower(join(<<m.title>> \o m.genres \o m.tags))

apply_prompt_boost(hyb, p) ==
    IF p = <<>> THEN hyb
    ELSE LET q == lower(p)
             boost(mid) == IF contains(haystack(movie_by_id(mid)), q) THEN Num(2) ELSE 0
         IN  sorted_desc(list([i \in DOMAIN hyb |->
                                  <<hyb[i][1], hyb[i][2] + boost(hyb[i][1])>>]))

(* ------------------------------ Flask app ------------------------------ *)

\* alpha=0.6 as index passes it to hybrid_scores
Alpha == (6 * Scale) \div 10

\* index shows the first TopN entries of the boosted map
TopN == 5

MsgHead == <<"M", "o", "v", "i", "e", " ", "'">>

MsgTail ==
    <<"'", " ", "n", "o", "t", " ", "f", "o", "u", "n", "d", " ", "i", "n", " ", "d", "a", "t", "a", "s", "e", "t", ".", " ", "T", "r", "y", " ", "I", "n", "c", "e", "p", "t", "i", "o", "n", ",", " ", "I", "n", "t", "e", "r", "s", "t", "e", "l", "l", "a", "r", ",", " ", "e", "t", "c", ".">>

Stages == <<"build_tfidf", "build_user_profile", "predict_cf", "predict_cb",
            "hybrid_scores", "apply_prompt_boost">>

\* find_movie matching the whole title instead of a part of it
find_movie_exact(name) ==
    LET hits == {i \in DOMAIN MOVIES : lower(MOVIES[i].title) = name}
    IN  IF hits = {} THEN None
        ELSE Some(MOVIES[CHOOSE i \in hits : \A j \in hits : i <= j])

\* next((m for m in MOVIES if movie_name in m["title"].lower()), None)
find_movie(name) ==
    LET hits == {i \in DOMAIN MOVIES : contains(lower(MOVIES[i].title), name)}
    IN  IF hits = {} THEN None
        ELSE Some(MOVIES[CHOOSE i \in hits : \A j \in hits : i <= j])

\* lines 205-209: the (movie, score, boosted_flag) triples shown
build_recs(bst, p) ==
    list([i \in DOMAIN take(bst, TopN) |->
             <<movie_by_id(bst[i][1]), bst[i][2],
               contains(haystack(movie_by_id(bst[i][1])), lower(p))>>])

\* The locals of one POST request whose movie was found (lines 197-209), each
\* bound to its value once, in the order index assigns them; neighbors is the
\* local of that name inside predict_cf.
found(mv, r, p) ==
    \E rs \in {mv.id :> r} :
    \E tf \in {build_tfidf(MOVIES)} :
    \E prof \in {build_user_profile(tf, rs)} :
    \E nb \in {neighbors_of(rs, COMMUNITY, K)} :
    \E c_f \in {predict_cf(rs, COMMUNITY)} :
    \E c_b \in {predict_cb(tf, prof, rs)} :
    \E hyb \in {hybrid_scores(c_f, c_b, Alpha)} :
    \E bst \in {apply_prompt_boost(hyb, p)} :
        /\ ratings' = Some(rs)
        /\ tfidf' = Some(tf)
        /\ user_profile' = Some(prof)
        /\ neighbors' = Some(nb)
        /\ cf' = Some(c_f)
        /\ cb' = Some(c_b)
        /\ hybrid' = Some(hyb)
        /\ boosted' = Some(bst)
        /\ recs' = Some(build_recs(bst, p))
        /\ error' = None
        /\ calls' = Stages

no_scoring ==
    /\ ratings' = None
    /\ tfidf' = None
    /\ user_profile' = None
    /\ neighbors' = None
    /\ cf' = None
    /\ cb' = None
    /\ hybrid' = None
    /\ boosted' = None
    /\ recs' = None
    /\ calls' = <<>>

\* What one request does to the handler's locals and its result.
handle(m, f) ==
    /\ method' = m
    /\ IF m = "POST"
       THEN \E name \in {lower(strip(f.movie_name))} :
            \E r \in {Num(f.rating)} :
            \E mv \in {find_movie(name)} :
                /\ form' = Some(f)
                /\ movie_name' = Some(name)
                /\ prompt' = Some(f.prompt)
                /\ movie' = mv
                /\ IF mv = None
                   THEN /\ error' = Some(MsgHead \o name \o MsgTail)
                        /\ no_scoring
                   ELSE found(mv[1], r, f.prompt)
       ELSE /\ form' = None
            /\ movie_name' = None
            /\ prompt' = None
            /\ movie' = None
            /\ error' = None
            /\ no_scoring

\* index keeping the requester's rating as one more peer of the community
index_learning(m, f) ==
    /\ handle(m, f)
    /\ MOVIES' = MOVIES
    /\ COMMUNITY' = IF ratings' = None THEN COMMUNITY
                    ELSE Append(COMMUNITY, [userId |-> "u_new", ratings |-> ratings'[1]])

\* One request served by index: the catalog and the community are only read.
index(m, f) ==
    /\ handle(m, f)
    /\ UNCHANGED <<MOVIES, COMMUNITY>>

(* ---------------------------- specifications --------------------------- *)

NoRequest ==
    /\ method = ""
    /\ form = None
    /\ movie_name = None
    /\ prompt = None
    /\ movie = None
    /\ ratings = None
    /\ tfidf = None
    /\ user_profile = None
    /\ neighbors = None
    /\ cf = None
    /\ cb = None
    /\ hybrid = None
    /\ boosted = None
    /\ recs = None
    /\ error = None
    /\ calls = <<>>
    /\ first = None

Names ==
    { <<"p", "a", "r", "a", "s", "i", "t", "e">>,
      <<"I", "n", "c", "e", "p", "t", "i", "o", "n">>,
      <<" ", "T", "h", "e", " ">>,
      <<"M", "A", "T", "R", "I", "X">>,
      <<"s", "t", "e", "l", "l", "a", "r">>,
      <<"z", "z", "z">>,
      <<>> }

Prompts ==
    { <<>>,
      <<" ">>,
      <<"s", "c", "i", "-", "f", "i">>,
      <<"N", "o", "l", "a", "n">> }

Forms == [movie_name : Names, rating : 1..5, prompt : Prompts]

Init ==
    /\ MOVIES = SampleMovies
    /\ COMMUNITY = SampleCommunity
    /\ NoRequest

Post == \E f \in Forms : index("POST", f) /\ UNCHANGED first

Get == index("GET", [movie_name |-> <<>>, rating |-> 1, prompt |-> <<>>]) /\ UNCHANGED first

Next == Post \/ Get

Spec == Init /\ [][Next]_vars

(* ------------- requests in sequence, the first one remembered ---------- *)

HistNames ==
    { <<"p", "a", "r", "a", "s", "i", "t", "e">>,
      <<"M", "A", "T", "R", "I", "X">>,
      <<"z", "z", "z">> }

HistPrompts ==
    { <<>>,
      <<"s", "c", "i", "-", "f", "i">> }

HistForms == [movie_name : HistNames, rating : {3, 5}, prompt : HistPrompts]

\* first: the first POST request served and what it returned
remember(f) ==
    first' = IF first = None THEN Some([form |-> f, recs |-> recs', error |-> error'])
             ELSE first

HistPost == \E f \in HistForms : index("POST", f) /\ remember(f)

HistNext == HistPost \/ Get

SpecHist == Init /\ [][HistNext]_vars

(* ------------- predict_cf on its own, over small communities ----------- *)

\* Longest community tried.
MaxPeers == 4

PeerRatings ==
    { (1 :> Num(5)) @@ (2 :> Num(3)),
      (1 :> Num(1)) @@ (2 :> Num(5)) @@ (3 :> Num(4)),
      (2 :> Num(5)) @@ (4 :> Num(1)),
      (1 :> Num(4)) @@ (3 :> Num(2)) @@ (5 :> Num(5)) }

Communities ==
    UNION {[1..n -> PeerRatings] : n \in 0..MaxPeers}

community_of(rss) == list([i \in DOMAIN rss |-> [userId |-> ToString(i), ratings |-> rss[i]]])

TargetRatings == {(m :> Num(r)) : m \in {1, 2}, r \in {1, 5}}

InitCF ==
    /\ MOVIES = SampleMovies
    /\ \E rss \in Communities : COMMUNITY = community_of(rss)
    /\ \E rs \in TargetRatings : ratings = Some(rs)
    /\ method = ""
    /\ form = None
    /\ movie_name = None
    /\ prompt = None
    /\ movie = None
    /\ tfidf = None
    /\ user_profile = None
    /\ neighbors = None
    /\ cf = None
    /\ cb = None
    /\ hybrid = None
    /\ boosted = None
    /\ recs = None
    /\ error = None
    /\ calls = <<>>
    /\ first = None

\* cf = predict_cf(ratings, COMMUNITY)
CallPredictCF ==
    /\ calls = <<>>
    /\ \E nb \in {neighbors_of(ratings[1], COMMUNITY, K)} :
          /\ neighbors' = Some(nb)
          /\ cf' = Some(predict_cf(ratings[1], COMMUNITY))
    /\ calls' = <<"predict_cf">>
    /\ UNCHANGED <<MOVIES, COMMUNITY, method, form, movie_name, prompt, movie, ratings,
                   tfidf, user_profile, cb, hybrid, boosted, recs, error, first>>

SpecCF == InitCF /\ [][CallPredictCF]_vars

(* ------ hybrid_scores and apply_prompt_boost on their own, any maps ---- *)

\* The score maps tried have their keys among the first MaxKeys catalog items.
MaxKeys == 3

ScoreMaps ==
    UNION {[ks -> {0, Num(5)}] : ks \in SUBSET (1..MaxKeys)}

BlendPrompts ==
    { <<>>,
      <<"d", "r", "e", "a", "m">>,
      <<"s", "c", "i", "-", "f", "i">> }

InitBlend ==
    /\ MOVIES = SampleMovies
    /\ COMMUNITY = SampleCommunity
    /\ \E m \in ScoreMaps : cf = Some(m)
    /\ \E m \in ScoreMaps : cb = Some(m)
    /\ \E p \in BlendPrompts : prompt = Some(p)
    /\ method = ""
    /\ form = None
    /\ movie_name = None
    /\ movie = None
    /\ ratings = None
    /\ tfidf = None
    /\ user_profile = None
    /\ neighbors = None
    /\ hybrid = None
    /\ boosted = None
    /\ recs = None
    /\ error = None
    /\ calls = <<>>
    /\ first = None

\* hybrid = hybrid_scores(cf, cb, alpha=0.6)
CallHybridScores ==
    /\ calls = <<>>
    /\ hybrid' = Some(hybrid_scores(cf[1], cb[1], Alpha))
    /\ calls' = <<"hybrid_scores">>
    /\ UNCHANGED <<MOVIES, COMMUNITY, method, form, movie_name, prompt, movie, ratings,
                   tfidf, user_profile, neighbors, cf, cb, boosted, recs, error, first>>

\* boosted = apply_prompt_boost(hybrid, prompt)
CallApplyPromptBoost ==
    /\ calls = <<"hybrid_scores">>
    /\ boosted' = Some(apply_prompt_boost(hybrid[1], prompt[1]))
    /\ calls' = <<"hybrid_scores", "apply_prompt_boost">>
    /\ UNCHANGED <<MOVIES, COMMUNITY, method, form, movie_name, prompt, movie, ratings,
                   tfidf, user_profile, neighbors, cf, cb, hybrid, recs, error, first>>

NextBlend == CallHybridScores \/ CallApplyPromptBoost

SpecBlend == InitBlend /\ [][NextBlend]_vars

(* ------------------------------ properties ----------------------------- *)

keys_of(om) == {om[i][1] : i \in DOMAIN om}

score_in(om, mid) == om[CHOOSE i \in DOMAIN om : om[i][1] = mid][2]

pos_in(om, mid) == CHOOSE i \in DOMAIN om : om[i][1] = mid

catalog_pos(mid) == CHOOSE i \in DOMAIN MOVIES : MOVIES[i].id = mid

Blank(p) == \A i \in DOMAIN p : p[i] \in Whitespace

Descending(om) ==
    \A i, j \in DOMAIN om : i < j => om[i][2] >= om[j][2]

TiesInCatalogOrder(om) ==
    \A i, j \in DOMAIN om :
        (i < j /\ om[i][2] = om[j][2]) => catalog_pos(om[i][1]) < catalog_pos(om[j][1])

TiesInOrderOf(om, base) ==
    \A i, j \in DOMAIN om :
        (i < j /\ om[i][2] = om[j][2]) => pos_in(base, om[i][1]) < pos_in(base, om[j][1])

Unrated(rs) == {m \in Range(movie_ids) : m \notin DOMAIN rs}

\* C1: the rated item is a key of none of the maps returned by predict_cf,
\* predict_cb, hybrid_scores and apply_prompt_boost, and is in no triple of the
\* recommendation list index builds.
C1_NoSelfRecommendation ==
    ratings # None =>
        \A mid \in DOMAIN ratings[1] :
            /\ mid \notin DOMAIN cf[1]
            /\ mid \notin DOMAIN cb[1]
            /\ mid \notin keys_of(hybrid[1])
            /\ mid \notin keys_of(boosted[1])
            /\ \A i \in DOMAIN recs[1] : recs[1][i][1].id # mid

C1_Witness ==
    /\ ratings # None
    /\ prompt[1] # <<>>
    /\ Len(recs[1]) >= 3
    /\ DOMAIN cf[1] # {}

\* C2: the keys of hybrid_scores(cf, cb) are exactly the items that are a key
\* of cf or a key of cb.
C2_HybridKeysAreUnion ==
    (hybrid # None /\ cf # None /\ cb # None) =>
        keys_of(hybrid[1]) = DOMAIN cf[1] \cup DOMAIN cb[1]

\* C3: apply_prompt_boost with an absent, empty or whitespace-only query
\* returns the blended map unchanged: same items, same scores, same order.
C3_BlankQueryIsIdentity ==
    (boosted # None /\ prompt # None /\ Blank(prompt[1])) => boosted = hybrid

\* C4: in every triple index returns, the boosted flag is true exactly when
\* the score is the item's blended score plus 2.0, and the score is the blended
\* score when the flag is false.
C4_FlagIffBoostApplied ==
    recs # None =>
        \A i \in DOMAIN recs[1] :
            /\ recs[1][i][3] <=>
                   (recs[1][i][2] = score_in(hybrid[1], recs[1][i][1].id) + Num(2))
            /\ (~recs[1][i][3]) =>
                   (recs[1][i][2] = score_in(hybrid[1], recs[1][i][1].id))

\* C5 as stated: the maps returned by hybrid_scores and, for a non-blank
\* query, by apply_prompt_boost are non-increasing in score, with equal scores
\* in catalog order.
C5_TiesInCatalogOrder ==
    /\ hybrid # None => (Descending(hybrid[1]) /\ TiesInCatalogOrder(hybrid[1]))
    /\ (boosted # None /\ ~Blank(prompt[1])) =>
           (Descending(boosted[1]) /\ TiesInCatalogOrder(boosted[1]))

\* C5 as amended: both maps are non-increasing in score; equal scores are in
\* catalog order in the map returned by hybrid_scores, and in the order of the
\* blended map it was given in the map returned by apply_prompt_boost.
C5_TiesInInputOrder ==
    /\ hybrid # None => (Descending(hybrid[1]) /\ TiesInCatalogOrder(hybrid[1]))
    /\ (boosted # None /\ ~Blank(prompt[1])) =>
           (Descending(boosted[1]) /\ TiesInOrderOf(boosted[1], hybrid[1]))

C5_Witness ==
    /\ boosted # None
    /\ ~Blank(prompt[1])
    /\ \E i, j \in DOMAIN boosted[1] :
          /\ i < j
          /\ boosted[1][i][2] = boosted[1][j][2]
          /\ score_in(hybrid[1], boosted[1][i][1]) > score_in(hybrid[1], boosted[1][j][1])
          /\ catalog_pos(boosted[1][i][1]) > catalog_pos(boosted[1][j][1])

\* C6: predict_cf keeps at most K neighbours, each a peer of the community with
\* strictly positive similarity to the target ratings, none less similar than a
\* peer left out; an unrated item is a key of the result exactly when some
\* neighbour rated it.
C6_NeighboursAndKeys ==
    (calls = <<"predict_cf">>) =>
        /\ Len(neighbors[1]) <= K
        /\ \A i \in DOMAIN neighbors[1] :
              /\ neighbors[1][i][2] > 0
              /\ \E j \in DOMAIN COMMUNITY :
                    /\ COMMUNITY[j].userId = neighbors[1][i][1]
                    /\ COMMUNITY[j].ratings = neighbors[1][i][3]
                    /\ cosine_sim(ratings[1], COMMUNITY[j].ratings) = neighbors[1][i][2]
        /\ \A i, j \in DOMAIN neighbors[1] : i # j => neighbors[1][i][1] # neighbors[1][j][1]
        /\ \A j \in DOMAIN COMMUNITY :
              (COMMUNITY[j].userId \notin keys_of(neighbors[1])) =>
                  \A i \in DOMAIN neighbors[1] :
                      cosine_sim(ratings[1], COMMUNITY[j].ratings) <= neighbors[1][i][2]
        /\ DOMAIN cf[1] =
              {m \in Unrated(ratings[1]) :
                  \E i \in DOMAIN neighbors[1] : m \in DOMAIN neighbors[1][i][3]}

C6_Witness ==
    /\ calls = <<"predict_cf">>
    /\ Len(neighbors[1]) = K
    /\ \E j \in DOMAIN COMMUNITY :
          /\ COMMUNITY[j].userId \notin keys_of(neighbors[1])
          /\ cosine_sim(ratings[1], COMMUNITY[j].ratings) > 0
          /\ \E m \in Unrated(ratings[1]) :
                m \notin DOMAIN cf[1] /\ m \in DOMAIN COMMUNITY[j].ratings
    /\ DOMAIN cf[1] # {}

\* C7: over any sequence of requests the catalog and the community stay as
\* shipped, and a request equal to the first one served returns what the first
\* one returned, whatever was served in between.
C7_NoCrossRequestState ==
    /\ MOVIES = SampleMovies
    /\ COMMUNITY = SampleCommunity
    /\ (first # None /\ method = "POST" /\ form = Some(first[1].form)) =>
           (recs = first[1].recs /\ error = first[1].error)

C7_Witness ==
    /\ first # None
    /\ method = "POST"
    /\ form # Some(first[1].form)
    /\ recs # None
    /\ recs # first[1].recs
    /\ first[1].recs # None

\* C8: when no title contains the submitted name, the request ends with the
\* not-found error, no recommendation list and no scoring stage run; when one
\* does, every stage runs on a rating map holding exactly one catalog id and no
\* error is set.
C8_LookupGuardsPipeline ==
    (method = "POST") =>
        /\ (movie = None) <=>
               (\A i \in DOMAIN MOVIES : ~contains(lower(MOVIES[i].title), movie_name[1]))
        /\ (movie = None) =>
               /\ error = Some(MsgHead \o movie_name[1] \o MsgTail)
               /\ recs = None
               /\ calls = <<>>
               /\ ratings = None /\ tfidf = None /\ user_profile = None
               /\ neighbors = None /\ cf = None /\ cb = None
               /\ hybrid = None /\ boosted = None
        /\ (movie # None) =>
               /\ error = None
               /\ recs # None
               /\ calls = Stages
               /\ ratings # None
               /\ Cardinality(DOMAIN ratings[1]) = 1
               /\ DOMAIN ratings[1] = {movie[1].id}
               /\ DOMAIN ratings[1] \subseteq Range(movie_ids)
               /\ ratings[1][movie[1].id] = Num(form[1].rating)

C8_Witness ==
    /\ method = "POST"
    /\ movie = None
    /\ error # None

\* C9: for the rating {Parasite: 5} and no query, u_bianca is the only
\* neighbour of predict_cf and the collaborative map has no key besides the
\* items u_bianca rated other than Parasite.
C9_ParasiteDrawsOnBianca ==
    (ratings = Some(Movie5.id :> Num(5)) /\ prompt = Some(<<>>)) =>
        /\ Len(neighbors[1]) = 1
        /\ neighbors[1][1][1] = "u_bianca"
        /\ cosine_sim(ratings[1], COMMUNITY[1].ratings) = 0
        /\ DOMAIN cf[1] \subseteq (DOMAIN COMMUNITY[2].ratings) \ {Movie5.id}
        /\ \A e \in Range(hybrid[1]) :
              (e[1] \notin (DOMAIN COMMUNITY[2].ratings) \ {Movie5.id}) =>
                  (e[2] = Mul(Num(1) - Alpha, cb[1][e[1]]))

C9_Witness ==
    /\ ratings = Some(Movie5.id :> Num(5))
    /\ prompt = Some(<<>>)
    /\ DOMAIN cf[1] # {}
    /\ Len(hybrid[1]) > 1

sum_sq(v) == SumOver(dict([t \in DOMAIN v |-> v[t] * v[t]]), DOMAIN v)

\* C10: a single rating below 4 gives the empty profile, a content score of
\* exactly 0 for every unrated item, no error, and a result whose scores are
\* the collaborative share alone; a rating of 4 or 5 gives the rated item's
\* TF-IDF vector divided by its L2 norm, which has norm 1 up to rounding.
C10_ProfileByThreshold ==
    ratings # None =>
        \A mid \in DOMAIN ratings[1] :
            /\ (ratings[1][mid] < Num(4)) =>
                   /\ user_profile = Some(EmptyDict)
                   /\ DOMAIN cb[1] = Unrated(ratings[1])
                   /\ \A m \in DOMAIN cb[1] : cb[1][m] = 0
                   /\ error = None
                   /\ recs # None
                   /\ \A e \in Range(hybrid[1]) :
                          /\ e[1] \in DOMAIN cf[1]
                          /\ e[2] = Mul(Alpha, cf[1][e[1]])
                   /\ Descending(boosted[1])
                   /\ \A i \in DOMAIN recs[1] :
                          /\ recs[1][i][1].id = boosted[1][i][1]
                          /\ recs[1][i][2] \in {Mul(Alpha, cf[1][recs[1][i][1].id]),
                                                Mul(Alpha, cf[1][recs[1][i][1].id]) + Num(2)}
            /\ (ratings[1][mid] >= Num(4)) =>
                   /\ DOMAIN user_profile[1] = DOMAIN tfidf[1][mid]
                   /\ \A t \in DOMAIN user_profile[1] :
                          user_profile[1][t] = Div(tfidf[1][mid][t], sqrt(sum_sq(tfidf[1][mid])))
                   /\ Abs(sqrt(sum_sq(user_profile[1])) - Scale)
                          <= Cardinality(DOMAIN user_profile[1])

C10_Witness ==
    /\ ratings # None
    /\ \E mid \in DOMAIN ratings[1] : ratings[1][mid] < Num(4)
    /\ recs # None
    /\ Len(recs[1]) >= 1
    /\ prompt[1] = <<>>

====
